---- MODULE Spec2Model ----
\* A model of fairseq2's counting data source (count_data_source.h) and of the
\* SentencePiece model loader and processor (sp_processor.cc).
EXTENDS Integers, Sequences, FiniteSets, TLC

\* ------------------------------------------------------------------ bounds

\* Width of the counter's signed integer type, scaled down from 64 bits.
CounterBits == 3
\* Most next() calls in one uninterrupted run of a producer.
MaxCalls == 3
\* Most values ever recorded to the tape.
MaxTape == 2

RECURSIVE Pow2(_)
Pow2(k) == IF k = 0 THEN 1 ELSE 2 * Pow2(k - 1)

CounterMax == Pow2(CounterBits - 1) - 1
CounterMin == -Pow2(CounterBits - 1)
CounterRange == CounterMin..CounterMax

VARIABLES
    \* count_data_source and its tape
    build,      \* what the build makes of signed overflow: "wrap" or "trap"
    source,     \* the producer object: [start, counter, alive]
    tape,       \* the values recorded to the tape, in order
    tapePos,    \* the tape's read cursor: how many values were read back
    last,       \* what the latest next() call gave: [st, v]
    run,        \* how the current run began and how far it is: [kind, base, calls]
    tapeRun,    \* per tape value: the calls made when it was recorded in a fresh run, else -1
    \* sp_processor's constructor, its sp_model_loader and the finished processor
    file,           \* the model file at pathname_: [code, pieces, pad_piece]
    control_tokens, \* opts_.control_tokens()
    pc,             \* where the constructor is: "load", "cache", "done", "failed"
    phase,          \* the loader's state: Unloaded, ProtoLoaded, ...
    ti,             \* tokens the loop of add_control_tokens has been through
    proto_,         \* the loader's ModelProto: [present, pieces, pad_piece]
    processor_,     \* the loader's SentencePieceProcessor
    native_,        \* the sp_processor's SentencePieceProcessor
    cached,         \* unk_idx, bos_idx, eos_idx, pad_idx, vocab_size
    error,          \* the exception that ended the constructor, or "none"
    compile_st,     \* the status processor_->Load gave, or "none"
    steps,          \* the loader's steps that ran, in order
    lookup,         \* the latest index_to_token call: [idx, result]
    calls           \* per thread, its call on the shared processor: [op, arg, stage, val]

countVars == <<build, source, tape, tapePos, last, run, tapeRun>>
loadVars == <<file, control_tokens, pc, phase, ti, proto_, processor_, native_,
              cached, error, compile_st, steps, lookup, calls>>
vars == <<countVars, loadVars>>

\* ------------------------------------------------------------ idle halves

NoOutput == [st |-> "none", v |-> 0]
NoProto == [present |-> FALSE, pieces |-> <<>>, pad_piece |-> ""]
NoCache == [set |-> FALSE, unk_idx |-> 0, bos_idx |-> 0, eos_idx |-> 0,
            pad_idx |-> 0, vocab_size |-> 0]
NoLookup == [idx |-> 0, result |-> "none", token |-> ""]

\* The threads that share the finished processor.
Threads == {"t1", "t2"}
NoVal == [st |-> "none", id |-> 0, out |-> <<>>]
NoCall == [op |-> "none", arg |-> [idx |-> 0, text |-> <<>>], stage |-> "idle",
           val |-> NoVal]
NoCalls == [t \in Threads |-> NoCall]

\* No sp_processor is under construction.
LoadIdle ==
    /\ file = [code |-> "kNotFound", pieces |-> <<>>, pad_piece |-> ""]
    /\ control_tokens = <<>>
    /\ pc = "idle"
    /\ phase = "Unloaded"
    /\ ti = 0
    /\ proto_ = NoProto
    /\ processor_ = NoProto
    /\ native_ = NoProto
    /\ cached = NoCache
    /\ error = "none"
    /\ compile_st = "none"
    /\ steps = <<>>
    /\ lookup = NoLookup
    /\ calls = NoCalls

\* No count_data_source exists.
CountIdle ==
    /\ build = "wrap"
    /\ source = [start |-> 0, counter |-> 0, alive |-> FALSE]
    /\ tape = <<>>
    /\ tapePos = 0
    /\ last = NoOutput
    /\ run = [kind |-> "none", base |-> 0, calls |-> 0]
    /\ tapeRun = <<>>

\* ------------------------------------------------------ count_data_source

Value(v) == [st |-> "value", v |-> v]
Aborted == [st |-> "abort", v |-> 0]

\* A constructor that leaves the counter at zero instead of at start.
count_data_sourceZero(start) == [start |-> start, counter |-> 0, alive |-> TRUE]

\* count_data_source(start): start_{start}, counter_{start}.
count_data_source(start) == [start |-> start, counter |-> start, alive |-> TRUE]

\* counter_++ on the signed counter: one more, and at the largest value the
\* overflow is undefined: the build either wraps around or traps.
Overflows(s) == s.counter = CounterMax
Incremented(c) == IF c = CounterMax THEN CounterMin ELSE c + 1

\* next(): returns the counter, then increments it.
NextOut(b, s) == IF Overflows(s) /\ b = "trap" THEN Aborted ELSE Value(s.counter)
NextState(b, s) ==
    IF Overflows(s) /\ b = "trap"
        THEN [s EXCEPT !.alive = FALSE]
        ELSE [s EXCEPT !.counter = Incremented(s.counter)]

\* reset(): the counter goes back to start.
ResetState(s) == [s EXCEPT !.counter = s.start]

\* A record_position that writes the configured start instead of the position.
RecordedStart(t, s) == Append(t, s.start)

\* record_position(tape): writes the counter only.
Recorded(t, s) == Append(t, s.counter)

\* A reload_position that takes the value read for the start as well.
ReloadedBoth(s, v) == [s EXCEPT !.counter = v, !.start = v]

\* reload_position(tape): reads the counter only.
Reloaded(s, v) == [s EXCEPT !.counter = v]

CountInit ==
    /\ build \in {"wrap", "trap"}
    /\ \E n \in CounterRange : source = count_data_source(n)
    /\ tape = <<>>
    /\ tapePos = 0
    /\ last = NoOutput
    /\ run = [kind |-> "fresh", base |-> 0, calls |-> 0]
    /\ tapeRun = <<>>
    /\ LoadIdle

\* A pipeline run ends and a fresh producer with the same configuration is
\* constructed; the tape persists.
Construct ==
    /\ source' = count_data_source(source.start)
    /\ last' = NoOutput
    /\ run' = [kind |-> "fresh", base |-> 0, calls |-> 0]
    /\ UNCHANGED <<build, tape, tapePos, tapeRun>>
    /\ UNCHANGED loadVars

next ==
    /\ source.alive
    /\ run.calls < MaxCalls
    /\ last' = NextOut(build, source)
    /\ source' = NextState(build, source)
    /\ run' = [run EXCEPT !.calls = run.calls + 1]
    /\ UNCHANGED <<build, tape, tapePos, tapeRun>>
    /\ UNCHANGED loadVars

reset ==
    /\ source.alive
    /\ source' = ResetState(source)
    /\ run' = [kind |-> "reset", base |-> 0, calls |-> 0]
    /\ UNCHANGED <<build, tape, tapePos, last, tapeRun>>
    /\ UNCHANGED loadVars

record_position ==
    /\ source.alive
    /\ Len(tape) < MaxTape
    /\ tape' = Recorded(tape, source)
    /\ tapeRun' = Append(tapeRun, IF run.kind = "fresh" THEN run.calls ELSE -1)
    /\ UNCHANGED <<build, source, tapePos, last, run>>
    /\ UNCHANGED loadVars

reload_position ==
    /\ source.alive
    /\ tapePos < Len(tape)
    /\ source' = Reloaded(source, tape[tapePos + 1])
    /\ tapePos' = tapePos + 1
    /\ run' = IF run.kind = "fresh" /\ run.calls = 0 /\ tapeRun[tapePos + 1] >= 0
                THEN [kind |-> "resumed", base |-> tapeRun[tapePos + 1], calls |-> 0]
                ELSE [kind |-> "other", base |-> 0, calls |-> 0]
    /\ UNCHANGED <<build, tape, last, tapeRun>>
    /\ UNCHANGED loadVars

CountNext ==
    \/ Construct
    \/ next
    \/ reset
    \/ record_position
    \/ reload_position

SpecCount == CountInit /\ [][CountNext]_vars

\* The producer an uninterrupted run of j next() calls from start n leaves, and
\* what its j-th call gives.
RECURSIVE Advanced(_, _, _)
Advanced(b, n, j) ==
    IF j = 0 THEN count_data_source(n) ELSE NextState(b, Advanced(b, n, j - 1))

Yield(b, n, j) ==
    LET s == Advanced(b, n, j - 1)
    IN IF s.alive THEN NextOut(b, s) ELSE Aborted

\* ------------------------------------------------- sp_model_loader: inputs

\* Most pieces in a model file.
MaxPieces == 3
\* Most entries in the control-token list.
MaxTokens == 2
\* Width of the index type of index_to_token, scaled down from 32 bits; the
\* size type is twice as wide, as std::size_t is to std::int32_t.
IdxBits == 4
SizeBits == 2 * IdxBits

IdxRange == (-Pow2(IdxBits - 1))..(Pow2(IdxBits - 1) - 1)

\* sentencepiece::util::StatusCode, the codes the loader tells apart and one more.
StatusCodes == {"kOk", "kNotFound", "kPermissionDenied", "kInternal", "kUnknown"}

NotFoundError == "system_error: no_such_file_or_directory"
PermissionError == "system_error: permission_denied"
StatusError == "runtime_error: st.message()"
NoPadError == "runtime_error: The model has no padding token specified."
RangeError == "domain_error: The specified index is out of range."

Piece(p, t) == [piece |-> p, type |-> t]
PadPiece == Piece("<pad>", "CONTROL")

RawPieces == {Piece("<unk>", "UNKNOWN"), Piece("a", "NORMAL"),
              Piece("<pad>", "CONTROL"), Piece("[PAD]", "NORMAL")}
PadNames == {"<pad>", "[PAD]"}
Tokens == {"", "<pad>", "<pad>@0", "[PAD]", "<x>"}

SeqsUpTo(S, n) == UNION {[1..k -> S] : k \in 0..n}
Injective(q) == \A i, j \in 1..Len(q) : q[i] = q[j] => i = j
Range(q) == {q[i] : i \in 1..Len(q)}
IsPrefix(q, r) == Len(q) <= Len(r) /\ \A i \in 1..Len(q) : q[i] = r[i]

\* What LoadModelProto finds at pathname_: a status and, when it is ok, the
\* pieces and the trainer spec's pad piece of the model.
ModelFiles ==
    {[code |-> "kOk", pieces |-> q, pad_piece |-> n] :
        q \in {x \in SeqsUpTo(RawPieces, MaxPieces) : Injective(x)}, n \in PadNames}
    \cup {[code |-> c, pieces |-> <<>>, pad_piece |-> ""] : c \in StatusCodes \ {"kOk"}}

\* ---------------------------------------------- the compiled engine's answers

Min(S) == CHOOSE x \in S : \A y \in S : x <= y

\* The id of the piece of that name and type, or -1.
EngineId(e, name, type) ==
    LET ids == {i \in 1..Len(e.pieces) :
                    e.pieces[i].piece = name /\ e.pieces[i].type = type}
    IN IF ids = {} THEN -1 ELSE Min(ids) - 1

unk_id(e) == EngineId(e, "<unk>", "UNKNOWN")
bos_id(e) == EngineId(e, "<s>", "CONTROL")
eos_id(e) == EngineId(e, "</s>", "CONTROL")
\* pad_id(): the id of the trainer spec's pad piece if it is a control piece.
pad_id(e) == EngineId(e, e.pad_piece, "CONTROL")
GetPieceSize(e) == Len(e.pieces)
IdToPiece(e, id) ==
    IF id >= 0 /\ id < Len(e.pieces) THEN e.pieces[id + 1].piece ELSE ""

\* ------------------------------------------------- sp_model_loader: steps

\* A mapping that forgets the permission-denied case.
LoadProtoErrorTwoKinds(code) ==
    IF code = "kNotFound" THEN NotFoundError ELSE StatusError

\* load_proto's throw for a status that is not ok.
LoadProtoError(code) ==
    IF code = "kNotFound" THEN NotFoundError
    ELSE IF code = "kPermissionDenied" THEN PermissionError
    ELSE StatusError

\* An add_piece that leaves the piece's type at the default.
add_pieceNormal(pieces, piece) == Append(pieces, Piece(piece, "NORMAL"))

\* An add_piece that skips a surface the list already holds.
add_pieceUnique(pieces, piece) ==
    IF \E i \in 1..Len(pieces) : pieces[i].piece = piece
        THEN pieces
        ELSE Append(pieces, Piece(piece, "CONTROL"))

\* add_piece: a new piece at the end, of type CONTROL.
add_piece(pieces, piece) == Append(pieces, Piece(piece, "CONTROL"))

\* A swap that copies one element over the other.
SwapElementsCopy(pieces, i, j) == [pieces EXCEPT ![i + 1] = pieces[j + 1]]

\* SwapElements(i, j), indices from 0.
SwapElements(pieces, i, j) ==
    [pieces EXCEPT ![i + 1] = pieces[j + 1], ![j + 1] = pieces[i + 1]]

\* The loop for (i = ...; i > 0; --i) SwapElements(i, i - 1), from index i.
RECURSIVE Swapped(_, _)
Swapped(pieces, i) ==
    IF i > 0 THEN Swapped(SwapElements(pieces, i, i - 1), i - 1) ELSE pieces

\* The loop run upwards: for (i = 1; i < size; ++i) SwapElements(i, i - 1).
RECURSIVE SwappedUp(_, _)
SwappedUp(pieces, i) ==
    IF i < Len(pieces) THEN SwappedUp(SwapElements(pieces, i, i - 1), i + 1) ELSE pieces

MovedToFrontUpward(pieces) == SwappedUp(pieces, 1)

\* A loop that stops one swap early.
MovedToFrontShort(pieces) ==
    IF Len(pieces) > 1
        THEN SwapElements(Swapped(pieces, Len(pieces) - 1), 0, 1)
        ELSE pieces

\* The pad token moved from the end to the beginning of the list.
MovedToFront(pieces) == Swapped(pieces, Len(pieces) - 1)

IsPadMarker(token) == token = "<pad>" \/ token = "<pad>@0"

\* A test that relocates for the plain spelling too.
RelocatesAnyPad(token) == IsPadMarker(token)

\* The legacy spelling is the only one that relocates the pad piece.
Relocates(token) == token = "<pad>@0"

\* A pass that names the pad piece by the token as configured.
TokenAppliedLiteral(p, token) ==
    IF token = "" THEN p
    ELSE IF IsPadMarker(token)
        THEN LET q == [p EXCEPT !.pad_piece = token,
                                !.pieces = Append(p.pieces, Piece(token, "CONTROL"))]
             IN IF token = "<pad>@0"
                    THEN [q EXCEPT !.pieces = Swapped(q.pieces, Len(q.pieces) - 1)]
                    ELSE q
        ELSE [p EXCEPT !.pieces = Append(p.pieces, Piece(token, "CONTROL"))]

\* One pass of add_control_tokens' loop, for one token.
TokenApplied(p, token) ==
    IF token = "" THEN p
    ELSE IF IsPadMarker(token)
        THEN LET q == [p EXCEPT !.pad_piece = "<pad>",
                                !.pieces = add_piece(p.pieces, "<pad>")]
             IN IF Relocates(token)
                    THEN [q EXCEPT !.pieces = MovedToFront(q.pieces)]
                    ELSE q
        ELSE [p EXCEPT !.pieces = add_piece(p.pieces, token)]

\* An exception leaves the constructor: the loader and the members of the
\* processor under construction are destroyed.
Throw(e) ==
    /\ pc' = "failed"
    /\ error' = e
    /\ proto_' = NoProto
    /\ processor_' = NoProto
    /\ native_' = NoProto
    /\ cached' = NoCache

\* A load_proto that returns normally whatever the status.
load_protoNoThrow ==
    /\ steps' = Append(steps, "load_proto")
    /\ proto_' = [present |-> TRUE, pieces |-> file.pieces, pad_piece |-> "<pad>"]
    /\ phase' = "ProtoLoaded"
    /\ UNCHANGED <<file, control_tokens, pc, ti, processor_, native_, cached,
                   error, compile_st, lookup>>

load_proto ==
    /\ steps' = Append(steps, "load_proto")
    /\ IF file.code = "kOk"
        THEN /\ proto_' = [present |-> TRUE, pieces |-> file.pieces,
                           pad_piece |-> file.pad_piece]
             /\ phase' = "ProtoLoaded"
             /\ UNCHANGED <<pc, error, processor_, native_, cached>>
        ELSE /\ Throw(LoadProtoError(file.code))
             /\ UNCHANGED phase
    /\ UNCHANGED <<file, control_tokens, ti, compile_st, lookup>>

\* add_control_tokens: the loop takes the next token, or is through.
add_control_tokens ==
    /\ IF ti < Len(control_tokens)
        THEN /\ proto_' = TokenApplied(proto_, control_tokens[ti + 1])
             /\ ti' = ti + 1
             /\ UNCHANGED <<phase, steps>>
        ELSE /\ phase' = "ControlTokensApplied"
             /\ steps' = Append(steps, "add_control_tokens")
             /\ UNCHANGED <<proto_, ti>>
    /\ UNCHANGED <<file, control_tokens, pc, processor_, native_, cached, error,
                   compile_st, lookup>>

\* load_processor: the engine compiles the proto it is handed, or refuses it.
\* What makes the engine refuse a proto is the engine's own business: any
\* proto may be accepted and any may be refused, with any status that is not ok.
load_processor ==
    /\ steps' = Append(steps, "load_processor")
    /\ \E st \in StatusCodes :
        /\ compile_st' = st
        /\ IF st = "kOk"
            THEN /\ processor_' = proto_
                 /\ proto_' = NoProto
                 /\ phase' = "CompiledEngine"
                 /\ UNCHANGED <<pc, error, native_, cached>>
            ELSE /\ Throw(StatusError)
                 /\ UNCHANGED phase
    /\ UNCHANGED <<file, control_tokens, ti, lookup>>

\* return std::move(processor_), assigned to native_.
load_return ==
    /\ native_' = processor_
    /\ processor_' = NoProto
    /\ pc' = "cache"
    /\ steps' = Append(steps, "return")
    /\ UNCHANGED <<file, control_tokens, phase, ti, proto_, cached, error,
                   compile_st, lookup>>

\* A load() that compiles before it adds the control tokens.
loadCompilesFirst ==
    /\ pc = "load"
    /\ \/ phase = "Unloaded" /\ load_proto
       \/ phase = "ProtoLoaded" /\ load_processor
       \/ phase = "CompiledEngine" /\ load_return

\* load(): load_proto(); add_control_tokens(); load_processor(); return.
load ==
    /\ pc = "load"
    /\ \/ phase = "Unloaded" /\ load_proto
       \/ phase = "ProtoLoaded" /\ add_control_tokens
       \/ phase = "ControlTokensApplied" /\ load_processor
       \/ phase = "CompiledEngine" /\ load_return

\* ------------------------------------------------------------ sp_processor

\* A check that lets the engine's -1 through.
PadMissingBelow(idx) == idx < -1

\* if (pad_idx < 0)
PadMissing(idx) == idx < 0

\* The rest of the constructor: the ids are cached, the pad id is checked.
sp_processor ==
    /\ pc = "cache"
    /\ IF PadMissing(pad_id(native_))
        THEN Throw(NoPadError)
        ELSE /\ cached' = [set |-> TRUE,
                           unk_idx |-> unk_id(native_),
                           bos_idx |-> bos_id(native_),
                           eos_idx |-> eos_id(native_),
                           pad_idx |-> pad_id(native_),
                           vocab_size |-> GetPieceSize(native_)]
             /\ pc' = "done"
             /\ UNCHANGED <<error, proto_, processor_, native_>>
    /\ UNCHANGED <<file, control_tokens, phase, ti, compile_st, steps, lookup>>

\* static_cast<std::size_t>(idx)
ToSize(idx) == IF idx < 0 THEN idx + Pow2(SizeBits) ELSE idx

\* A comparison without the cast to the unsigned size type.
OutOfRangeSigned(idx, size) == idx >= size

\* if (static_cast<std::size_t>(idx) >= vocab_size)
OutOfRange(idx, size) == ToSize(idx) >= size

\* One call at a time: the caller holds no result of an earlier call.
index_to_token(idx) ==
    /\ pc = "done"
    /\ lookup = NoLookup
    /\ lookup' = IF OutOfRange(idx, cached.vocab_size)
                    THEN [idx |-> idx, result |-> RangeError, token |-> ""]
                    ELSE [idx |-> idx, result |-> "ok",
                          token |-> IdToPiece(native_, idx)]
    /\ UNCHANGED <<file, control_tokens, pc, phase, ti, proto_, processor_,
                   native_, cached, error, compile_st, steps>>

\* The call has returned or thrown, and the caller is through with its result.
index_to_token_return ==
    /\ pc = "done"
    /\ lookup # NoLookup
    /\ lookup' = NoLookup
    /\ UNCHANGED <<file, control_tokens, pc, phase, ti, proto_, processor_,
                   native_, cached, error, compile_st, steps>>

\* The constructor is entered with a pathname and options; the loader exists.
Init ==
    /\ CountIdle
    /\ file \in ModelFiles
    /\ control_tokens \in SeqsUpTo(Tokens, MaxTokens)
    /\ pc = "load"
    /\ phase = "Unloaded"
    /\ ti = 0
    /\ proto_ = NoProto
    /\ processor_ = NoProto
    /\ native_ = NoProto
    /\ cached = NoCache
    /\ error = "none"
    /\ compile_st = "none"
    /\ steps = <<>>
    /\ lookup = NoLookup
    /\ calls = NoCalls

Next ==
    \/ load /\ UNCHANGED <<countVars, calls>>
    \/ sp_processor /\ UNCHANGED <<countVars, calls>>
    \/ \E idx \in IdxRange : index_to_token(idx) /\ UNCHANGED <<countVars, calls>>
    \/ index_to_token_return /\ UNCHANGED <<countVars, calls>>

Spec == Init /\ [][Next]_vars

\* --------------------------------- sp_processor: calls from several threads

\* PieceToId: the id of the piece of that surface, or the unknown id.
PieceToId(e, token) ==
    LET ids == {i \in 1..Len(e.pieces) : e.pieces[i].piece = token}
    IN IF ids = {} THEN unk_id(e) ELSE Min(ids) - 1

\* The engine's segmentation is the engine's own: here a text is a sequence of
\* words, each word becomes the piece of its id, the engine refuses a text
\* that holds "?", sampling may also give every word the unknown id, and
\* decoding drops the control pieces.
EngineRefuses(text) == "?" \in Range(text)
Encoded(e, text) ==
    [i \in 1..Len(text) |-> [piece |-> text[i], id |-> PieceToId(e, text[i])]]
Unknowns(e, text) ==
    [i \in 1..Len(text) |-> [piece |-> text[i], id |-> unk_id(e)]]
IsControlPiece(e, w) == \E i \in 1..Len(e.pieces) : e.pieces[i] = Piece(w, "CONTROL")
Refused == [st |-> "kInternal", id |-> 0, out |-> <<>>]
Answer(out) == [st |-> "kOk", id |-> 0, out |-> out]

EngineEncode(e, text) ==
    IF EngineRefuses(text) THEN {Refused} ELSE {Answer(Encoded(e, text))}
EngineSampleEncode(e, text) ==
    IF EngineRefuses(text) THEN {Refused}
    ELSE {Answer(Encoded(e, text)), Answer(Unknowns(e, text))}
EngineDecode(e, tokens) ==
    IF EngineRefuses(tokens) THEN {Refused}
    ELSE {Answer(SelectSeq(tokens, LAMBDA w : ~IsControlPiece(e, w)))}

\* What a method holds in its locals once its engine call or its range check is
\* made: encode (Encode), sample (SampleEncode), decode (Decode),
\* token_to_index (PieceToId), index_to_token (the comparison with vocab_size).
Locals(op, arg, e, c) ==
    CASE op = "encode" -> EngineEncode(e, arg.text)
      [] op = "sample" -> EngineSampleEncode(e, arg.text)
      [] op = "decode" -> EngineDecode(e, arg.text)
      [] op = "token_to_index" ->
            {[st |-> "kOk", id |-> PieceToId(e, arg.text[1]), out |-> <<>>]}
      [] op = "index_to_token" ->
            {[st |-> IF OutOfRange(arg.idx, c.vocab_size) THEN "range" ELSE "kOk",
              id |-> arg.idx, out |-> <<>>]}

\* What the method then returns or throws.
Returned(op, arg, l, e) ==
    CASE op = "index_to_token" ->
            IF l.st = "range"
                THEN [st |-> RangeError, id |-> 0, out |-> <<>>]
                ELSE [st |-> "ok", id |-> 0, out |-> <<IdToPiece(e, arg.idx)>>]
      [] op = "token_to_index" -> [st |-> "ok", id |-> l.id, out |-> <<>>]
      [] OTHER ->
            IF l.st # "kOk"
                THEN [st |-> StatusError, id |-> 0, out |-> <<>>]
                ELSE [st |-> "ok", id |-> 0, out |-> l.out]

ThreadTexts == {<<"a">>, <<"<pad>", "?">>}
CallArgs ==
    {[op |-> o, arg |-> [idx |-> 0, text |-> x]] :
        o \in {"encode", "sample", "decode"}, x \in ThreadTexts}
    \cup {[op |-> "token_to_index", arg |-> [idx |-> 0, text |-> <<w>>]] :
            w \in {"<pad>", "?"}}
    \cup {[op |-> "index_to_token", arg |-> [idx |-> i, text |-> <<>>]] :
            i \in {j \in IdxRange : -1 <= j /\ j <= 1}}

\* A method that keeps the index it was asked for in a member of the processor.
call_enterCaching(t, op, arg) ==
    /\ pc = "done"
    /\ calls[t].stage # "running"
    /\ \E l \in Locals(op, arg, native_, cached) :
        calls' = [calls EXCEPT ![t] = [op |-> op, arg |-> arg, stage |-> "running",
                                       val |-> l]]
    /\ cached' = [cached EXCEPT !.vocab_size = arg.idx + 1]
    /\ UNCHANGED <<file, control_tokens, pc, phase, ti, proto_, processor_,
                   native_, error, compile_st, steps, lookup>>

\* A thread enters a const method of the finished processor: the method
\* makes its engine call or its check, into its locals.
call_enter(t, op, arg) ==
    /\ pc = "done"
    /\ calls[t].stage # "running"
    /\ \E l \in Locals(op, arg, native_, cached) :
        calls' = [calls EXCEPT ![t] = [op |-> op, arg |-> arg, stage |-> "running",
                                       val |-> l]]
    /\ UNCHANGED <<file, control_tokens, pc, phase, ti, proto_, processor_,
                   native_, cached, error, compile_st, steps, lookup>>

\* The method returns its result or throws.
call_return(t) ==
    /\ pc = "done"
    /\ calls[t].stage = "running"
    /\ calls' = [calls EXCEPT ![t].stage = "returned",
                              ![t].val = Returned(calls[t].op, calls[t].arg,
                                                  calls[t].val, native_)]
    /\ UNCHANGED <<file, control_tokens, pc, phase, ti, proto_, processor_,
                   native_, cached, error, compile_st, steps, lookup>>

\* The processor the threads share is built from a model of two pieces, the
\* unknown piece first, and at most one control token.
ThreadInit ==
    /\ CountIdle
    /\ file \in {f \in ModelFiles : /\ f.code = "kOk"
                                    /\ Len(f.pieces) = 2
                                    /\ f.pieces[1].type = "UNKNOWN"}
    /\ control_tokens \in SeqsUpTo(Tokens, 1)
    /\ pc = "load"
    /\ phase = "Unloaded"
    /\ ti = 0
    /\ proto_ = NoProto
    /\ processor_ = NoProto
    /\ native_ = NoProto
    /\ cached = NoCache
    /\ error = "none"
    /\ compile_st = "none"
    /\ steps = <<>>
    /\ lookup = NoLookup
    /\ calls = NoCalls

ThreadNext ==
    \/ load /\ UNCHANGED <<countVars, calls>>
    \/ sp_processor /\ UNCHANGED <<countVars, calls>>
    \/ \E t \in Threads, c \in CallArgs :
            call_enter(t, c.op, c.arg) /\ UNCHANGED countVars
    \/ \E t \in Threads : call_return(t) /\ UNCHANGED countVars

SpecThreads == ThreadInit /\ [][ThreadNext]_vars

\* C1: a producer freshly constructed with start n and reloaded from a position
\* recorded after k calls of an uninterrupted run from n gives, on its i-th call,
\* what the (k+i)-th call of the uninterrupted run gives.
C1_ResumeContinues ==
    (run.kind = "resumed" /\ run.calls >= 1)
        => last = Yield(build, source.start, run.base + run.calls)

C1_Witness ==
    /\ run.kind = "resumed"
    /\ run.base >= 1
    /\ run.calls >= 2
    /\ last.st = "value"

\* C2: after reset() the producer is in the state construction left it in, and
\* its calls give what a freshly constructed producer's calls give: start,
\* start + 1, ... as far as the counter can hold them.
C2_ResetRestarts ==
    run.kind = "reset" =>
        /\ run.calls = 0 => source = count_data_source(source.start)
        /\ run.calls >= 1 => last = Yield(build, source.start, run.calls)
        /\ (run.calls >= 1 /\ source.start + run.calls <= CounterMax)
                => last = Value(source.start + run.calls - 1)

C2_Witness ==
    /\ run.kind = "reset"
    /\ run.calls >= 3
    /\ tapePos >= 1
    /\ last = Value(source.start + 2)

\* ------------------------------------------------------- loader: claims

LoadOrder == <<"load_proto", "add_control_tokens", "load_processor", "return">>

PhaseRank(ph) ==
    CASE ph = "Unloaded" -> 0
      [] ph = "ProtoLoaded" -> 1
      [] ph = "ControlTokensApplied" -> 2
      [] ph = "CompiledEngine" -> 3

NoMarker(tokens) == \A i \in 1..Len(tokens) : ~IsPadMarker(tokens[i])

\* C3: with the control-token list <<"<pad>@0">> and N pieces in the model,
\* add_control_tokens leaves N + 1 pieces, the pad piece at index 0 and every
\* piece of the model one index up, in the model's order.
C3_LegacyPadAtZero ==
    (phase = "ControlTokensApplied" /\ proto_.present
        /\ control_tokens = <<"<pad>@0">>)
    => /\ Len(proto_.pieces) = Len(file.pieces) + 1
       /\ proto_.pieces[1] = PadPiece
       /\ \A i \in 1..Len(file.pieces) : proto_.pieces[i + 1] = file.pieces[i]

C3_Witness ==
    /\ phase = "ControlTokensApplied"
    /\ proto_.present
    /\ control_tokens = <<"<pad>@0">>
    /\ Len(file.pieces) >= 3

\* C4: a pass of the loop over the plain spelling "<pad>" appends the pad piece
\* at the end and moves nothing; every pass over a token other than "<pad>@0"
\* leaves each earlier piece at its index, and a pass over "<pad>@0" puts the
\* pad piece at index 0.
C4_PlainPadStays ==
    [][ti' = ti + 1 =>
        LET token == control_tokens[ti']
        IN /\ token = "<pad>" => proto_'.pieces = Append(proto_.pieces, PadPiece)
           /\ token # "<pad>@0" =>
                \A i \in 1..Len(proto_.pieces) : proto_'.pieces[i] = proto_.pieces[i]
           /\ token = "<pad>@0" => proto_'.pieces[1] = PadPiece]_vars

C4_Witness ==
    /\ phase = "ProtoLoaded"
    /\ ti >= 1
    /\ control_tokens[ti] = "<pad>"
    /\ Len(proto_.pieces) >= 3
    /\ proto_.pieces[Len(proto_.pieces)] = PadPiece
    /\ proto_.pieces[1] # PadPiece

\* C5: a constructor that completes has cached a pad index >= 0, the engine's;
\* when the engine's pad id is negative the constructor throws instead, nothing
\* of the processor is left, and no operation ever runs on it.
C5_PadIndexChecked ==
    /\ [](pc = "done" => cached.set /\ cached.pad_idx >= 0
                            /\ cached.pad_idx = pad_id(native_))
    /\ [](pc = "failed" => ~cached.set /\ ~native_.present /\ lookup = NoLookup)
    /\ [][pc = "cache" =>
            IF pad_id(native_) < 0
                THEN pc' = "failed" /\ error' = NoPadError
                ELSE pc' = "done" /\ error' = "none"]_vars

C5_Witness ==
    /\ pc = "failed"
    /\ error = NoPadError
    /\ steps = LoadOrder
    /\ Len(file.pieces) >= 2

\* C6 as claimed: whenever the control-token list holds no padding marker and
\* the loader got through, the constructor fails with the no-padding-token error.
C6_NoMarkerAlwaysFails ==
    (NoMarker(control_tokens) /\ steps = LoadOrder /\ pc # "cache")
        => pc = "failed" /\ error = NoPadError

\* The model file brings its own pad piece, or a control token has its name.
HasOwnPad ==
    \/ \E i \in 1..Len(file.pieces) : file.pieces[i] = Piece(file.pad_piece, "CONTROL")
    \/ file.pad_piece \in Range(control_tokens)

\* C6, amended: with no padding marker in the control-token list, the
\* constructor fails with the no-padding-token error exactly when neither the
\* model file has a control piece of its pad piece's name nor a control token
\* has that name; otherwise it completes.
C6_NoMarkerFailsWithoutOwnPad ==
    (NoMarker(control_tokens) /\ steps = LoadOrder /\ pc # "cache")
        => IF HasOwnPad
            THEN pc = "done" /\ cached.pad_idx >= 0
            ELSE pc = "failed" /\ error = NoPadError

C6_Witness ==
    /\ NoMarker(control_tokens)
    /\ control_tokens = <<"<x>">>
    /\ Len(file.pieces) >= 2
    /\ pc = "failed"
    /\ error = NoPadError

\* C7: index_to_token(idx) throws the range error exactly when idx < 0 or
\* idx >= vocab_size, and otherwise gives the piece at idx.
C7_RangeChecked ==
    lookup # NoLookup =>
        /\ lookup.result = RangeError
            <=> (lookup.idx < 0 \/ lookup.idx >= cached.vocab_size)
        /\ (0 <= lookup.idx /\ lookup.idx <= cached.vocab_size - 1)
            => /\ lookup.result = "ok"
               /\ lookup.token = native_.pieces[lookup.idx + 1].piece

C7_Witness ==
    /\ lookup.idx < 0
    /\ lookup.result = RangeError
    /\ cached.vocab_size >= 2

\* C8: the loader's state only moves forward, one state at a time; its steps
\* run in the order load_proto, add_control_tokens, load_processor, return,
\* each at most once; an engine exists only once every control token is applied.
C8_ForwardOnly ==
    [][/\ PhaseRank(phase') - PhaseRank(phase) \in {0, 1}
       /\ IsPrefix(steps', LoadOrder)
       /\ (processor_'.present \/ native_'.present)
            => /\ ti' = Len(control_tokens)
               /\ phase' = "CompiledEngine"
               /\ IsPrefix(SubSeq(LoadOrder, 1, 3), steps')]_vars

C8_Witness ==
    /\ pc = "done"
    /\ phase = "CompiledEngine"
    /\ steps = LoadOrder
    /\ ti >= 2

\* C9: a failed load_proto ends the constructor before any control token is
\* added or anything is compiled, a failed compile ends it before an engine is
\* returned, no step runs twice, a failed constructor leaves no proto, engine
\* or cached id behind, and a finished processor comes from a load and a
\* compile that both succeeded.
C9_FailureEndsBuild ==
    /\ IsPrefix(steps, LoadOrder)
    /\ (file.code # "kOk" /\ steps # <<>>)
        => /\ pc = "failed"
           /\ steps = <<"load_proto">>
           /\ ti = 0
           /\ phase = "Unloaded"
    /\ compile_st \notin {"none", "kOk"}
        => /\ pc = "failed"
           /\ steps = SubSeq(LoadOrder, 1, 3)
           /\ phase = "ControlTokensApplied"
    /\ pc = "failed"
        => /\ ~proto_.present /\ ~processor_.present /\ ~native_.present
           /\ ~cached.set
           /\ lookup = NoLookup
    /\ pc = "done"
        => /\ file.code = "kOk" /\ compile_st = "kOk"
           /\ ti = Len(control_tokens)
           /\ native_.present

C9_Witness ==
    /\ pc = "failed"
    /\ compile_st = "kInternal"
    /\ ti >= 1

\* C10: load_proto throws the not-found error for kNotFound, the
\* permission-denied error for kPermissionDenied, the runtime error carrying
\* the status message for any other status that is not ok, and nothing for
\* kOk; load_processor throws that runtime error for any status that is not ok.
C10_ErrorKinds ==
    /\ steps = <<"load_proto">>
        => /\ file.code = "kNotFound" => pc = "failed" /\ error = NotFoundError
           /\ file.code = "kPermissionDenied" => pc = "failed" /\ error = PermissionError
           /\ file.code \notin {"kOk", "kNotFound", "kPermissionDenied"}
                => pc = "failed" /\ error = StatusError
           /\ file.code = "kOk" => pc = "load" /\ error = "none"
    /\ compile_st \notin {"none", "kOk"} => pc = "failed" /\ error = StatusError
    /\ (compile_st = "kOk" /\ pc = "load") => error = "none"

C10_Witness ==
    /\ pc = "failed"
    /\ file.code = "kPermissionDenied"
    /\ error = PermissionError

\* ------------------------------------------------------ processor: claims

\* What the call gives when it is the only call on the processor.
AloneResults(op, arg) ==
    {Returned(op, arg, l, native_) : l \in Locals(op, arg, native_, cached)}

\* C11: once the constructor is through, no step of any thread's encode,
\* sample, decode, token_to_index or index_to_token changes the cached ids,
\* vocab_size or the engine, and every call returns a result the same call
\* gives alone on that processor (for sample, one of its candidates).
C11_CallsOnlyRead ==
    /\ [][pc = "done" => cached' = cached /\ native_' = native_]_vars
    /\ [](\A t \in Threads :
            calls[t].stage = "returned"
                => calls[t].val \in AloneResults(calls[t].op, calls[t].arg))

C11_Witness ==
    /\ calls["t1"].stage = "returned"
    /\ calls["t1"].op = "index_to_token"
    /\ calls["t1"].val.st = "ok"
    /\ calls["t2"].stage = "running"
    /\ calls["t2"].op = "sample"
    /\ calls["t2"].val.st = "kOk"

\* ------------------------------------------- add_control_tokens: claims

\* The piece a pass over a padding marker has added: at index 0 for the
\* legacy spelling, at the end for the plain one.
AddedPadPiece(pieces, token) ==
    IF token = "<pad>@0" THEN pieces[1] ELSE pieces[Len(pieces)]

\* C12 as claimed: a pass over a padding marker, in either spelling, sets the
\* pad-piece metadata to the token as configured and adds a control piece of
\* that same surface.
C12_PadPieceIsTheToken ==
    [][(ti' = ti + 1 /\ IsPadMarker(control_tokens[ti'])) =>
        /\ proto_'.pad_piece = control_tokens[ti']
        /\ Len(proto_'.pieces) = Len(proto_.pieces) + 1
        /\ AddedPadPiece(proto_'.pieces, control_tokens[ti'])
                = Piece(control_tokens[ti'], "CONTROL")]_vars

\* C12, amended: a pass over a padding marker, in either spelling, sets the
\* pad-piece metadata to "<pad>" and adds one control piece of surface "<pad>";
\* for the plain spelling that is the token as configured, for "<pad>@0" it is
\* the token without its "@0".
C12_PadPieceIsPad ==
    [][(ti' = ti + 1 /\ IsPadMarker(control_tokens[ti'])) =>
        /\ proto_'.pad_piece = "<pad>"
        /\ Len(proto_'.pieces) = Len(proto_.pieces) + 1
        /\ AddedPadPiece(proto_'.pieces, control_tokens[ti']) = Piece("<pad>", "CONTROL")
        /\ control_tokens[ti'] = "<pad>" => proto_'.pad_piece = control_tokens[ti']]_vars

C12_Witness ==
    /\ phase = "ProtoLoaded"
    /\ ti >= 1
    /\ control_tokens[ti] = "<pad>@0"
    /\ file.pad_piece = "[PAD]"
    /\ proto_.pad_piece = "<pad>"
    /\ proto_.pieces[1] = PadPiece
    /\ Len(proto_.pieces) >= 2

NonEmpty(tokens) == SelectSeq(tokens, LAMBDA w : w # "")
ControlPieces(tokens) == [i \in 1..Len(tokens) |-> Piece(tokens[i], "CONTROL")]

\* C13: with no padding marker in the control-token list, add_control_tokens
\* leaves the model's pieces in their order, followed by the non-empty tokens
\* in their order, each a CONTROL piece; empty entries add nothing and a token
\* that repeats or names an existing piece is added again.
C13_TokensAppendedInOrder ==
    (phase = "ControlTokensApplied" /\ proto_.present /\ NoMarker(control_tokens))
        => proto_.pieces = file.pieces \o ControlPieces(NonEmpty(control_tokens))

C13_Witness ==
    /\ phase = "ControlTokensApplied"
    /\ proto_.present
    /\ control_tokens = <<"[PAD]", "[PAD]">>
    /\ \E i \in 1..Len(file.pieces) : file.pieces[i].piece = "[PAD]"
    /\ Len(proto_.pieces) = Len(file.pieces) + 2

\* ------------------------------------------------ count_data_source: claims

\* C14: no step changes start; a record_position appends the counter, one
\* value, to the tape and leaves the producer and the read cursor as they
\* were; a reload_position reads one value, the next unread one, into the
\* counter and leaves the tape's values as they were.
C14_OnlyCounterCheckpointed ==
    [][/\ source'.start = source.start
       /\ Len(tape') # Len(tape)
            => /\ tape' = Append(tape, source.counter)
               /\ source' = source
               /\ tapePos' = tapePos
       /\ tapePos' # tapePos
            => /\ tapePos' = tapePos + 1
               /\ source'.counter = tape[tapePos']
               /\ tape' = tape]_vars

C14_Witness ==
    /\ tapePos = 2
    /\ run.kind = "other"
    /\ run.calls = 0
    /\ source.counter = tape[2]
    /\ source.counter # source.start
    /\ tape[1] # tape[2]

\* C15 as claimed: every next() returns a value, the counter before the call;
\* the counter afterwards is that value plus one; and a call that follows
\* another with no reset or reload between returns a greater value.
C15_StrictlyIncreasing ==
    [][run.calls' = run.calls + 1 =>
        /\ last' = Value(source.counter)
        /\ source'.counter = source.counter + 1
        /\ (run.calls >= 1 /\ last.st = "value") => last'.v > last.v]_vars

\* ------------------------------------- add_control_tokens: claims, continued

\* The tokens the loop has been through.
Processed == SubSeq(control_tokens, 1, ti)

\* C16: when the control-token list holds "<pad>@0", add_control_tokens
\* leaves the pad piece at index 0; the pass over "<pad>@0" puts the pad piece
\* in front of every piece there was, the model's and the earlier tokens'
\* alike, each one index up; a later pass over another token appends at the
\* end and leaves index 0 as it was.
C16_LegacyPadFirst ==
    /\ []((phase = "ControlTokensApplied" /\ proto_.present
            /\ "<pad>@0" \in Range(control_tokens))
          => proto_.pieces[1] = PadPiece)
    /\ [][ti' = ti + 1 =>
            LET token == control_tokens[ti']
            IN /\ token = "<pad>@0" => proto_'.pieces = <<PadPiece>> \o proto_.pieces
               /\ (token # "<pad>@0" /\ "<pad>@0" \in Range(Processed))
                    => /\ proto_'.pieces[1] = PadPiece
                       /\ token # "" =>
                            /\ Len(proto_'.pieces) = Len(proto_.pieces) + 1
                            /\ SubSeq(proto_'.pieces, 1, Len(proto_.pieces))
                                    = proto_.pieces]_vars

C16_Witness ==
    /\ phase = "ControlTokensApplied"
    /\ proto_.present
    /\ control_tokens = <<"<x>", "<pad>@0">>
    /\ Len(file.pieces) >= 2
    /\ proto_.pieces[Len(proto_.pieces)] = Piece("<x>", "CONTROL")

\* The pieces at the positions of S, in order.
RECURSIVE Picked(_, _, _)
Picked(q, S, i) ==
    IF i > Len(q) THEN <<>>
    ELSE (IF i \in S THEN <<q[i]>> ELSE <<>>) \o Picked(q, S, i + 1)

\* C17: at every point of add_control_tokens the list holds as many pieces as
\* the model had plus one per non-empty token gone through; the model's pieces
\* are all in it, each once, unchanged and in their order, and every other
\* piece is a CONTROL piece.
C17_OnlyAddsAndPermutes ==
    (proto_.present /\ phase \in {"ProtoLoaded", "ControlTokensApplied"})
        => /\ Len(proto_.pieces) = Len(file.pieces) + Len(NonEmpty(Processed))
           /\ \E S \in SUBSET (1..Len(proto_.pieces)) :
                /\ Picked(proto_.pieces, S, 1) = file.pieces
                /\ \A j \in (1..Len(proto_.pieces)) \ S :
                        proto_.pieces[j].type = "CONTROL"

C17_Witness ==
    /\ phase = "ControlTokensApplied"
    /\ proto_.present
    /\ control_tokens = <<"", "<pad>@0">>
    /\ Len(file.pieces) >= 3
    /\ Len(proto_.pieces) = Len(file.pieces) + 1

====
